---- MODULE Spec2Model ----
(***************************************************************************)
(* State-machine model of the axis servo execution layer                   *)
(* (src/servo_controller.py, class AxisServo).                             *)
(*                                                                         *)
(* Numeric conventions of the model                                        *)
(*  - Ticks.  Python integers are unbounded and the code clamps stored     *)
(*    commands to the signed 32-bit range.  The model keeps the same       *)
(*    clamp / mask / sign-extension code on a narrower word: the sign bit  *)
(*    is bit TickBits instead of bit 31, so IntMin = -2^TickBits and       *)
(*    IntMax = 2^TickBits - 1.                                             *)
(*  - Degrees are given in tenths of a degree (an integer dd stands for    *)
(*    dd/10 degrees), so deg * ticks_per_rev / 360.0 is the rational       *)
(*    dd * ticks_per_rev / 3600.                                           *)
(*  - Python's round() is round-half-to-even; int() truncates.             *)
(*  - Optional values: None is <<>> and a value v is <<v>>.                *)
(*  - Time is in hundredths of a second.                                   *)
(***************************************************************************)
EXTENDS Integers, Sequences, FiniteSets, TLC

\* ---------------------------------------------------------------- bounds
\* position of the sign bit of the model's tick word (the program's is 31)
TickBits == 12

\* ------------------------------------------------------------- constants
TicksPerRev == 4096

IntMax == 2^TickBits - 1

IntMin == -(2^TickBits)

WordMod == 2^(TickBits + 1)

\* cfg.ids: the configured axes
Ids == {1, 2}

\* cfg.ids in the order of the list
CfgIds == <<1, 2>>

TORQUE_ENABLE == 1

TORQUE_DISABLE == 0

\* cfg.mode_extended_position
ModeExtendedPosition == 4

None == <<>>

Some(v) == <<v>>

\* ----------------------------------------------------------- conversions
Max2(a, b) == IF a >= b THEN a ELSE b

Min2(a, b) == IF a <= b THEN a ELSE b

Abs(x) == IF x < 0 THEN -x ELSE x

\* Python round(n / d) for d > 0: nearest integer, ties to even
RoundHalfEven(n, d) ==
    LET q == n \div d
        r == n % d
    IN  IF 2 * r < d THEN q
        ELSE IF 2 * r > d THEN q + 1
        ELSE IF q % 2 = 0 THEN q ELSE q + 1

\* _int32: mask to the word, then sign-extend
Int32(x) ==
    LET y == x % WordMod
    IN  IF y >= 2^TickBits THEN y - WordMod ELSE y

\* _i16: mask to 16 bits, then sign-extend
I16(x) ==
    LET y == x % 65536
    IN  IF y >= 32768 THEN y - 65536 ELSE y

\* _u32: mask to the word
U32(x) == x % WordMod

\* deg_to_ticks, dd in tenths of a degree
DegToTicks(dd) == RoundHalfEven(dd * TicksPerRev, 3600)

\* mutant of Clamp: the value wraps to the word instead of saturating
Clamp_Wrap(t) == Int32(t)

\* max(-2**31, min(2**31 - 1, t))
Clamp(t) == Max2(IntMin, Min2(IntMax, t))

\* ------------------------------------------------------------------ state
VARIABLES
    \* AxisServo fields
    cmd_ticks,              \* id -> stored command (ticks)
    last_present_ticks,     \* id -> Optional position
    last_present_current,   \* id -> Optional current
    supports_current,       \* _supports_current: "None" | "True" | "False"
    \* the caller
    pc,                     \* "idle" | "stream" | "settle"
    script,                 \* the API calls the caller has still to make
    last_call,              \* [call, status] of the latest API call; status is
                            \* "running", "returned" or the exception raised
    nudge_log,              \* id -> [base, deltas, read_at]: the command at its
                            \* latest overwrite, the tick deltas nudged since,
                            \* and the number of deltas at the latest bus read
    \* execute_time_synced: arguments and locals
    args,                   \* [duration_s, poll_hz, eps_deg, settle_n,
                            \*  timeout_factor, smoothstep, current_guard]
    start_pos, start_cur, goal, steps, eps_ticks,
    k,                      \* loop variable of the streaming loop
    mid,                    \* waypoint of the latest step
    now, deadline,          \* time.time() and deadline, from line 308 on
    ok_streak, last_max_err,
    result,                 \* Optional returned dict
    \* what the bus saw during the call
    written,                \* Optional: the words of the latest syncWrite
    nwrites,                \* syncWrites transmitted
    tripped,                \* Optional: the first step at which a guard read
                            \* returned a current outside the guard range
    poll_errs,              \* max_err of every settle poll, in order
    post_reads,             \* bulk reads issued after the settle loop ended
    nreads,                 \* bulk reads issued by the call
    last_read,              \* Optional [want_current, req, resp]: the latest bulk
                            \* read of the call, req telling whether the current
                            \* registers were on the request
    io_failed,              \* a bulk read or sync write of the call has failed
    guard_reads,            \* the streaming steps that issued a guard read
    mode_ids,               \* ensure_extended_mode: the ids it went through
    mode_writes,            \* and the <<id, address, value>> it wrote, in order
    \* what the bus saw during the session
    absent_seen,            \* a bulk_read(want_current=True) has returned no
                            \* current for some axis
    first_cur,              \* "None", or what the first successful bulk read
                            \* that requested the current found: "all" | "absent"
    \* run_step_scan.py: the file and the locals of main
    state_file,             \* scan_progress.json: None while it does not exist,
                            \* or Some([next_step_idx, home_offsets, last_combo])
    scan_pc,                \* "off" | "branch" | "check" | "moved"
    state,                  \* what load_state() returned to the latest run
    current_step_idx,
    home_offsets,           \* id -> ticks, <<>> while it is {}
    scan_result,            \* Optional [kind, settled]: what the
                            \* execute_time_synced of the latest run returned,
                            \* kind being "step" or "home"
    scan_exit               \* how the latest run ended, "" while none has

storeVars == <<cmd_ticks, last_present_ticks, last_present_current, supports_current>>

callVars == <<pc, script, last_call, nudge_log>>

execVars == <<args, start_pos, start_cur, goal, steps, eps_ticks, k, mid, now,
              deadline, ok_streak, last_max_err, result>>

busVars == <<written, nwrites, tripped, poll_errs, post_reads>>

ioVars == <<nreads, last_read, io_failed, guard_reads>>

modeVars == <<mode_ids, mode_writes>>

curVars == <<absent_seen, first_cur>>

scanVars == <<state_file, scan_pc, state, current_step_idx, home_offsets,
              scan_result, scan_exit>>

vars == <<storeVars, callVars, execVars, busVars, ioVars, modeVars, curVars, scanVars>>

\* -------------------------------------------------------------- the bus
\* One bulk transfer as the bus answers it: ok is comm = COMM_SUCCESS,
\* pos[i] / cur[i] is the raw register word of axis i, or None when
\* isAvailable() is false for it.
\* the position offsets from the reference position
PosOffsets == { <<1, 0>>, <<-5, 1>>, <<0, 2>> }

\* raw positions near the reference position ref
NearPos(ref, off) == [i \in Ids |-> Some(U32(ref[i] + off[i]))]

\* the answers of the bus to one transfer, ref being where the axes are meant
\* to be: near ref with the currents inside, above or partly absent; at the
\* two ends of the range with a current below; the transfer failing; a
\* position missing
BusResponses(ref) ==
    { [ok |-> TRUE, pos |-> NearPos(ref, <<1, 0>>), cur |-> <<Some(100), Some(65436)>>],
      [ok |-> TRUE, pos |-> NearPos(ref, <<-5, 1>>), cur |-> <<Some(0), Some(500)>>],
      [ok |-> TRUE, pos |-> NearPos(ref, <<0, 2>>), cur |-> <<None, Some(0)>>],
      [ok |-> TRUE, pos |-> <<Some(U32(IntMax)), Some(U32(IntMin))>>,
                    cur |-> <<Some(65136), Some(0)>>],
      [ok |-> FALSE, pos |-> <<None, None>>, cur |-> <<None, None>>],
      [ok |-> TRUE, pos |-> <<Some(0), None>>, cur |-> <<Some(0), Some(0)>>] }

\* ------------------------------------------------------------ bulk_read
\* mutant of BR_Request: the current registers are requested whether or not
\* the caller wants the current
BR_Request_Any(want_current) == supports_current # "False"

\* the current registers are added to the request
BR_Request(want_current) == want_current /\ supports_current # "False"

\* txRxPacket failed, or a position is not available
BR_Raises(resp) == ~resp.ok \/ \E i \in Ids : resp.pos[i] = None

BR_Pos(resp) == [i \in Ids |-> Int32(resp.pos[i][1])]

BR_Cur(want_current, resp) ==
    [i \in Ids |-> IF BR_Request(want_current) /\ resp.cur[i] # None
                   THEN Some(I16(resp.cur[i][1]))
                   ELSE None]

\* mutant of BR_Supports: support is decided again at every attempt
BR_Supports_Latest(want_current, resp) ==
    IF BR_Request(want_current)
    THEN (IF \A i \in Ids : resp.cur[i] # None THEN "True" ELSE "False")
    ELSE supports_current

\* if self._supports_current is None: self._supports_current = ok_all
BR_Supports(want_current, resp) ==
    IF BR_Request(want_current) /\ supports_current = "None"
    THEN (IF \A i \in Ids : resp.cur[i] # None THEN "True" ELSE "False")
    ELSE supports_current

\* mutant of BulkReadEffect: after a completed transfer the positions that
\* are available are cached before the missing one is noticed
BulkReadEffect_Partial(want_current, resp) ==
    IF ~resp.ok
    THEN UNCHANGED <<last_present_ticks, last_present_current, supports_current>>
    ELSE /\ last_present_ticks' =
               [i \in Ids |-> IF resp.pos[i] # None
                              THEN Some(Int32(resp.pos[i][1]))
                              ELSE last_present_ticks[i]]
         /\ last_present_current' =
               IF BR_Raises(resp) THEN last_present_current
               ELSE BR_Cur(want_current, resp)
         /\ supports_current' =
               IF BR_Raises(resp) THEN supports_current
               ELSE BR_Supports(want_current, resp)

\* the effect of one bulk_read on the object
BulkReadEffect(want_current, resp) ==
    IF BR_Raises(resp)
    THEN UNCHANGED <<last_present_ticks, last_present_current, supports_current>>
    ELSE /\ last_present_ticks' = [i \in Ids |-> Some(BR_Pos(resp)[i])]
         /\ last_present_current' = BR_Cur(want_current, resp)
         /\ supports_current' = BR_Supports(want_current, resp)

\* what one bulk_read shows on the bus; n is the number of reads the call
\* had issued before it
ObserveRead(n, want_current, resp) ==
    /\ nreads' = n + 1
    /\ last_read' = Some([want_current |-> want_current,
                          req |-> BR_Request(want_current), resp |-> resp])
    /\ io_failed' = BR_Raises(resp)
    /\ absent_seen' = (absent_seen \/ (/\ want_current
                                       /\ ~BR_Raises(resp)
                                       /\ \E i \in Ids : BR_Cur(want_current, resp)[i] = None))
    /\ first_cur' = IF first_cur = "None" /\ BR_Request(want_current) /\ ~BR_Raises(resp)
                    THEN (IF \A i \in Ids : resp.cur[i] # None THEN "all" ELSE "absent")
                    ELSE first_cur

\* a call that issues no bulk read
NoRead ==
    /\ nreads' = 0 /\ last_read' = None /\ io_failed' = FALSE /\ guard_reads' = {}
    /\ UNCHANGED curVars

\* a call other than ensure_extended_mode
NoModeWrites == mode_ids' = <<>> /\ mode_writes' = <<>>

\* mutant of ReadKeepsCommand: the command follows the measured position
ReadKeepsCommand_Snap ==
    cmd_ticks' = [i \in DOMAIN cmd_ticks |->
                     IF i \in Ids /\ last_present_ticks'[i] # None
                     THEN last_present_ticks'[i][1] ELSE cmd_ticks[i]]

\* bulk_read assigns last_present_ticks and last_present_current and nothing
\* of cmd_ticks; execute_time_synced only reads cmd_ticks, at line 267
ReadKeepsCommand == UNCHANGED cmd_ticks

\* ------------------------------------------------------ command store
\* mutant of ApplyAbs: an axis that already holds a command keeps it
RECURSIVE ApplyAbs_KeepNonzero(_, _)
ApplyAbs_KeepNonzero(cmd, arg) ==
    IF arg = <<>> THEN cmd
    ELSE LET dxl_id == Head(arg)[1]
             t == Clamp(DegToTicks(Head(arg)[2]))
         IN  IF dxl_id \in DOMAIN cmd /\ cmd[dxl_id] # 0
             THEN ApplyAbs_KeepNonzero(cmd, Tail(arg))
             ELSE ApplyAbs_KeepNonzero((dxl_id :> t) @@ cmd, Tail(arg))

\* set_targets_abs_deg over the items of the dict, in order
RECURSIVE ApplyAbs(_, _)
ApplyAbs(cmd, arg) ==
    IF arg = <<>> THEN cmd
    ELSE LET dxl_id == Head(arg)[1]
             t == Clamp(DegToTicks(Head(arg)[2]))
         IN  ApplyAbs((dxl_id :> t) @@ cmd, Tail(arg))

\* mutant of ApplyNudge: the delta is added to the measured position
RECURSIVE ApplyNudge_FromPresent(_, _)
ApplyNudge_FromPresent(cmd, arg) ==
    IF arg = <<>> THEN [cmd |-> cmd, raised |-> FALSE]
    ELSE LET dxl_id == Head(arg)[1]
             dt == DegToTicks(Head(arg)[2])
             from == IF dxl_id \in Ids /\ last_present_ticks[dxl_id] # None
                     THEN last_present_ticks[dxl_id][1] ELSE cmd[dxl_id]
         IN  IF dxl_id \notin DOMAIN cmd
             THEN [cmd |-> cmd, raised |-> TRUE]
             ELSE ApplyNudge_FromPresent([cmd EXCEPT ![dxl_id] = Clamp(from + dt)],
                                         Tail(arg))

\* nudge_rel_deg over the items of the dict, in order; a key that is not in
\* cmd_ticks raises KeyError after the earlier items were stored
RECURSIVE ApplyNudge(_, _)
ApplyNudge(cmd, arg) ==
    IF arg = <<>> THEN [cmd |-> cmd, raised |-> FALSE]
    ELSE LET dxl_id == Head(arg)[1]
             dt == DegToTicks(Head(arg)[2])
         IN  IF dxl_id \notin DOMAIN cmd
             THEN [cmd |-> cmd, raised |-> TRUE]
             ELSE ApplyNudge([cmd EXCEPT ![dxl_id] = Clamp(cmd[dxl_id] + dt)], Tail(arg))

\* mutant of ResetTicks: the turn is taken with floor division
ResetTicks_Floor(mode, pos, cmd) ==
    IF mode = "to_present"
    THEN [i \in DOMAIN cmd |-> IF i \in Ids THEN pos[i] ELSE cmd[i]]
    ELSE IF mode = "to_nearest_turn"
    THEN [i \in DOMAIN cmd |-> IF i \in Ids
                               THEN (pos[i] \div TicksPerRev) * TicksPerRev
                               ELSE cmd[i]]
    ELSE cmd

\* soft_reset, once the read has succeeded
ResetTicks(mode, pos, cmd) ==
    IF mode = "to_present"
    THEN [i \in DOMAIN cmd |-> IF i \in Ids THEN pos[i] ELSE cmd[i]]
    ELSE IF mode = "to_nearest_turn"
    THEN [i \in DOMAIN cmd |-> IF i \in Ids
                               THEN RoundHalfEven(pos[i], TicksPerRev) * TicksPerRev
                               ELSE cmd[i]]
    ELSE cmd

\* ------------------------------------------------------------ callers
\* one call: set_targets_abs_deg / nudge_rel_deg take the dict targets,
\* soft_reset takes mode, bulk_read takes want_current
Call(op, targets, mode, want_current) ==
    [op |-> op, targets |-> targets, mode |-> mode, want_current |-> want_current]

SetAbs(targets) == Call("set_targets_abs_deg", targets, "", FALSE)

Nudge(targets) == Call("nudge_rel_deg", targets, "", FALSE)

Reset(mode) == Call("soft_reset", <<>>, mode, FALSE)

Read(want_current) == Call("bulk_read", <<>>, "", want_current)

Execute == Call("execute_time_synced", <<>>, "", FALSE)

Ensure == Call("ensure_extended_mode", <<>>, "", FALSE)

\* The sequences of API calls a caller makes in one session (angles in tenths
\* of a degree; a dict is the sequence of its items; axis 3 is not
\* configured).  A caller goes on after a call that raised, as run_scan.py
\* does in its finally block.
Scripts ==
    { << Nudge(<< <<1, 1800>> >>),
         Execute,
         Nudge(<< <<2, -1800>>, <<1, 1>> >>) >>,
      << SetAbs(<< <<1, 10000>>, <<2, -10000>> >>),
         Execute >>,
      << Nudge(<< <<1, 1800>>, <<2, 900>> >>),
         Read(TRUE),
         Nudge(<< <<1, 1>>, <<2, -1800>> >>),
         SetAbs(<< <<1, 900>> >>),
         Read(FALSE) >>,
      << SetAbs(<< <<1, 10000>>, <<3, 450>> >>),
         Nudge(<< <<1, 1800>>, <<2, -10000>> >>),
         Nudge(<< <<2, -1800>>, <<1, -1800>> >>),
         SetAbs(<< <<2, -900>> >>) >>,
      << Nudge(<< <<1, -900>>, <<3, 900>>, <<2, 900>> >>),
         Reset("to_present"),
         Nudge(<< <<1, 1800>> >>),
         Reset("to_zero") >>,
      << SetAbs(<< <<1, 1800>>, <<2, -1800>> >>),
         Reset("to_nearest_turn"),
         Reset("to_present") >>,
      << Ensure,
         Read(TRUE),
         Reset("to_nearest_turn"),
         Read(TRUE) >> }

\* ---------------------------------------------------------- nudge log
RECURSIVE SumSeq(_)
SumSeq(s) == IF s = <<>> THEN 0 ELSE Head(s) + SumSeq(Tail(s))

\* the tick deltas that a nudge_rel_deg call applied to axis i
RECURSIVE DeltasFor(_, _, _)
DeltasFor(i, arg, dom) ==
    IF arg = <<>> \/ Head(arg)[1] \notin dom THEN <<>>
    ELSE (IF Head(arg)[1] = i THEN <<DegToTicks(Head(arg)[2])>> ELSE <<>>)
             \o DeltasFor(i, Tail(arg), dom)

\* the axes of Ids that a dict names
Named(arg) == { arg[n][1] : n \in DOMAIN arg } \cap Ids

\* the axes in S were overwritten: their log starts again at the new command
LogOverwrite(S, cmd_new) ==
    [i \in Ids |-> IF i \in S
                   THEN [base |-> cmd_new[i], deltas |-> <<>>, read_at |-> 0]
                   ELSE nudge_log[i]]

\* the bus was read: remember how many deltas each axis had then
LogRead == [i \in Ids |-> [nudge_log[i] EXCEPT !.read_at = Len(nudge_log[i].deltas)]]

\* ------------------------------------------------------------ __init__
NoFrame ==
    /\ args = None /\ start_pos = None /\ start_cur = None /\ goal = None
    /\ steps = 0 /\ eps_ticks = 0 /\ k = 0 /\ mid = None /\ now = 0
    /\ deadline = 0 /\ ok_streak = 0 /\ last_max_err = None /\ result = None
    /\ written = None /\ nwrites = 0 /\ tripped = None /\ poll_errs = <<>>
    /\ post_reads = 0

\* run_step_scan.py has not run: there is no state file
ScanOff ==
    /\ state_file = None
    /\ scan_pc = "off"
    /\ state = None
    /\ current_step_idx = 0
    /\ home_offsets = <<>>
    /\ scan_result = None
    /\ scan_exit = ""

\* an AxisServo right after __init__, with the calls in sc still to make
Constructed(sc) ==
    /\ cmd_ticks = [i \in Ids |-> 0]
    /\ last_present_ticks = [i \in Ids |-> None]
    /\ last_present_current = [i \in Ids |-> None]
    /\ supports_current = "None"
    /\ pc = "idle"
    /\ script = sc
    /\ last_call = [call |-> Call("__init__", <<>>, "", FALSE), status |-> "returned"]
    /\ nudge_log = [i \in Ids |-> [base |-> 0, deltas |-> <<>>, read_at |-> 0]]
    /\ NoFrame
    /\ nreads = 0 /\ last_read = None /\ io_failed = FALSE /\ guard_reads = {}
    /\ mode_ids = <<>> /\ mode_writes = <<>>
    /\ absent_seen = FALSE /\ first_cur = "None"

Init ==
    /\ \E sc \in Scripts : Constructed(sc)
    /\ ScanOff

\* a new API call starts: the frame of the previous execution is gone
DropFrame ==
    /\ args' = None /\ start_pos' = None /\ start_cur' = None /\ goal' = None
    /\ steps' = 0 /\ eps_ticks' = 0 /\ k' = 0 /\ mid' = None /\ now' = 0
    /\ deadline' = 0 /\ ok_streak' = 0 /\ last_max_err' = None /\ result' = None
    /\ written' = None /\ nwrites' = 0 /\ tripped' = None /\ poll_errs' = <<>>
    /\ post_reads' = 0

\* the caller is about to make the call op
Calling(op) == pc = "idle" /\ script # <<>> /\ Head(script).op = op

Called(status) ==
    /\ script' = Tail(script)
    /\ last_call' = [call |-> Head(script), status |-> status]

\* ------------------------------------------------- command store calls
SetTargetsAbsDeg ==
    /\ UNCHANGED scanVars
    /\ Calling("set_targets_abs_deg")
    /\ cmd_ticks' = ApplyAbs(cmd_ticks, Head(script).targets)
    /\ nudge_log' = LogOverwrite(Named(Head(script).targets), cmd_ticks')
    /\ Called("returned")
    /\ pc' = "idle"
    /\ DropFrame
    /\ NoRead
    /\ NoModeWrites
    /\ UNCHANGED <<last_present_ticks, last_present_current, supports_current>>

NudgeRelDeg ==
    /\ UNCHANGED scanVars
    /\ Calling("nudge_rel_deg")
    /\ LET r == ApplyNudge(cmd_ticks, Head(script).targets)
       IN  /\ cmd_ticks' = r.cmd
           /\ nudge_log' = [i \in Ids |->
                  [nudge_log[i] EXCEPT
                      !.deltas = @ \o DeltasFor(i, Head(script).targets, DOMAIN cmd_ticks)]]
           /\ Called(IF r.raised THEN "KeyError" ELSE "returned")
    /\ pc' = "idle"
    /\ DropFrame
    /\ NoRead
    /\ NoModeWrites
    /\ UNCHANGED <<last_present_ticks, last_present_current, supports_current>>

SoftReset ==
    /\ UNCHANGED scanVars
    /\ Calling("soft_reset")
    /\ \E resp \in BusResponses(cmd_ticks) :
        LET mode == Head(script).mode
        IN  /\ BulkReadEffect(FALSE, resp)
            /\ ObserveRead(0, FALSE, resp)
            /\ IF BR_Raises(resp)
               THEN /\ UNCHANGED <<cmd_ticks, nudge_log>>
                    /\ Called("RuntimeError")
               ELSE /\ cmd_ticks' = ResetTicks(mode, BR_Pos(resp), cmd_ticks)
                    /\ nudge_log' = IF mode \in {"to_present", "to_nearest_turn"}
                                    THEN LogOverwrite(Ids, cmd_ticks')
                                    ELSE LogRead
                    /\ Called(IF mode \in {"to_present", "to_nearest_turn"}
                              THEN "returned" ELSE "ValueError")
    /\ pc' = "idle"
    /\ DropFrame
    /\ guard_reads' = {}
    /\ NoModeWrites

BulkRead ==
    /\ UNCHANGED scanVars
    /\ Calling("bulk_read")
    /\ \E resp \in BusResponses(cmd_ticks) :
        /\ BulkReadEffect(Head(script).want_current, resp)
        /\ ObserveRead(0, Head(script).want_current, resp)
        /\ nudge_log' = IF BR_Raises(resp) THEN nudge_log ELSE LogRead
        /\ Called(IF BR_Raises(resp) THEN "RuntimeError" ELSE "returned")
    /\ pc' = "idle"
    /\ DropFrame
    /\ guard_reads' = {}
    /\ NoModeWrites
    /\ ReadKeepsCommand

\* -------------------------------------------------- ensure_extended_mode
\* the ids argument of a call: None, the configured list, or a list of the
\* caller's own
EnsureIds == { <<>>, <<1, 2>>, <<2, 1>>, <<2>> }

\* mutant of EnsureWrites: the torque of every axis is disabled first, then
\* the modes are set and the torques enabled
EnsureWrites_Batched(ids) ==
    LET Off(l) == [n \in DOMAIN l |-> <<l[n], "torque_enable", TORQUE_DISABLE>>]
        Set(l) == [n \in DOMAIN l |-> <<l[n], "operating_mode", ModeExtendedPosition>>]
        On(l) == [n \in DOMAIN l |-> <<l[n], "torque_enable", TORQUE_ENABLE>>]
    IN  Off(ids) \o Set(ids) \o On(ids)

\* the write1ByteTxRx calls of the loop over ids, in order; what each
\* returns is discarded, so a write that fails stops nothing
RECURSIVE EnsureWrites(_)
EnsureWrites(ids) ==
    IF ids = <<>> THEN <<>>
    ELSE << <<Head(ids), "torque_enable", TORQUE_DISABLE>>,
            <<Head(ids), "operating_mode", ModeExtendedPosition>>,
            <<Head(ids), "torque_enable", TORQUE_ENABLE>> >>
         \o EnsureWrites(Tail(ids))

EnsureExtendedMode ==
    /\ UNCHANGED scanVars
    /\ Calling("ensure_extended_mode")
    /\ \E a \in EnsureIds :
        LET ids == IF a = <<>> THEN CfgIds ELSE a
        IN  /\ mode_ids' = ids
            /\ mode_writes' = EnsureWrites(ids)
    /\ Called("returned")
    /\ pc' = "idle"
    /\ DropFrame
    /\ NoRead
    /\ UNCHANGED <<storeVars, nudge_log>>

\* -------------------------------------------------- execute_time_synced
\* longest suspension of the process between two readings of the clock
MaxStall == 20

Stalls == {0, MaxStall}

ExecArg(duration_s, poll_hz, eps_deg, settle_n, timeout_factor, smoothstep, guard) ==
    [ duration_s |-> duration_s, poll_hz |-> poll_hz, eps_deg |-> eps_deg,
      settle_n |-> settle_n, timeout_factor |-> timeout_factor,
      smoothstep |-> smoothstep, current_guard |-> guard ]

\* the arguments of an execution: duration_s in 1/100 s, eps_deg in 1/10 degree
ExecArgs ==
    { ExecArg(30, 10, 2, 3, 2, TRUE, None),
      ExecArg(15, 10, 2, 1, 1, FALSE, None),
      ExecArg(30, 10, -2, 2, 0, TRUE, <<-300, 300>>),
      ExecArg(30, 20, 2, 3, 0, FALSE, <<-300, 300>>),
      ExecArg(100, 10, 2, 1, 0, TRUE, <<-300, 300>>) }

\* steps = max(1, int(duration_s * poll_hz))
Steps(duration_s, poll_hz) == Max2(1, (duration_s * poll_hz) \div 100)

\* eps_ticks = abs(self.deg_to_ticks(eps_deg))
EpsTicks(eps_deg) == Abs(DegToTicks(eps_deg))

\* mutant of ShapeNum: a * a * (3 - a)
ShapeNum_Wrong(kk, n, smoothstep) == IF smoothstep THEN kk * kk * (3 * n - kk) ELSE kk

\* shape(k / steps) as the fraction ShapeNum / ShapeDen
ShapeNum(kk, n, smoothstep) == IF smoothstep THEN kk * kk * (3 * n - 2 * kk) ELSE kk

ShapeDen(n, smoothstep) == IF smoothstep THEN n * n * n ELSE n

\* mutant of Waypoint: alpha is taken one step ahead, (k + 1) / steps
Waypoint_Ahead(s0, g, kk, n, smoothstep) ==
    RoundHalfEven(s0 * ShapeDen(n, smoothstep) + (g - s0) * ShapeNum(kk + 1, n, smoothstep),
                  ShapeDen(n, smoothstep))

\* mid[i] = int(round(start_pos[i] + (goal[i] - start_pos[i]) * a))
Waypoint(s0, g, kk, n, smoothstep) ==
    RoundHalfEven(s0 * ShapeDen(n, smoothstep) + (g - s0) * ShapeNum(kk, n, smoothstep),
                  ShapeDen(n, smoothstep))

\* mutant of GuardDue: every step is a guard step
GuardDue_Every(kk, poll_hz) == TRUE

\* k % max(1, poll_hz // 10) == 0
GuardDue(kk, poll_hz) == kk % Max2(1, poll_hz \div 10) = 0

\* mutant of Bad: an axis without a current reading counts as out of range
Bad_AbsentTrips(cur, guard) ==
    { i \in Ids : cur[i] = None \/ cur[i][1] < guard[1] \/ cur[i][1] > guard[2] }

\* bad = [i for i in ids if cur[i] is not None and (cur[i] < mn or cur[i] > mx)]
Bad(cur, guard) ==
    { i \in Ids : cur[i] # None /\ (cur[i][1] < guard[1] \/ cur[i][1] > guard[2]) }

\* max(abs(goal[i] - pos[i]) for i in ids)
MaxErr(g, pos) ==
    CHOOSE m \in { Abs(g[i] - pos[i]) : i \in Ids } :
        \A i \in Ids : Abs(g[i] - pos[i]) <= m

\* mutant of Timeout: no floor of 0.2 s
Timeout_NoFloor(a) == a.duration_s * a.timeout_factor

\* max(0.2, duration_s * timeout_factor)
Timeout(a) == Max2(20, a.duration_s * a.timeout_factor)

\* 1.0 / max(5, poll_hz)
SleepTime(poll_hz) == 100 \div Max2(5, poll_hz)

\* max_err <= eps_ticks
InTolerance(max_err, eps) == max_err <= eps

\* mutant of NextStreak: a poll out of tolerance leaves the streak as it is
NextStreak_NoReset(streak, max_err, eps) ==
    IF InTolerance(max_err, eps) THEN streak + 1 ELSE streak

\* ok_streak after a poll: ok_streak += 1, or ok_streak = 0
NextStreak(streak, max_err, eps) == IF InTolerance(max_err, eps) THEN streak + 1 ELSE 0

\* mutant of StreakDone: ok_streak > settle_n
StreakDone_Late(streak, settle_n) == streak > settle_n

\* ok_streak >= settle_n
StreakDone(streak, settle_n) == streak >= settle_n

\* mutant of GuardStops: the loop goes on
GuardStops_Never(bad) == FALSE

\* if bad: break
GuardStops(bad) == bad # {}

\* ticks_to_deg as the fraction <<numerator, denominator>>
TicksToDeg(t) == <<t * 360, TicksPerRev>>

\* mutant of Raise: the failure is recorded and the loop goes on
Raise_GoesOn ==
    /\ UNCHANGED pc
    /\ last_call' = [last_call EXCEPT !.status = "RuntimeError"]

\* the RuntimeError of bulk_read or sync_write_goal_positions leaves
\* execute_time_synced
Raise ==
    /\ pc' = "idle"
    /\ last_call' = [last_call EXCEPT !.status = "RuntimeError"]

\* lines 266-276
ExecuteTimeSynced ==
    /\ UNCHANGED scanVars
    /\ Calling("execute_time_synced")
    /\ \E a \in ExecArgs, resp \in BusResponses(cmd_ticks) :
        /\ BulkReadEffect(TRUE, resp)
        /\ ObserveRead(0, TRUE, resp)
        /\ script' = Tail(script)
        /\ IF BR_Raises(resp)
           THEN /\ pc' = "idle"
                /\ last_call' = [call |-> Head(script), status |-> "RuntimeError"]
                /\ DropFrame
                /\ UNCHANGED nudge_log
           ELSE /\ pc' = "stream"
                /\ last_call' = [call |-> Head(script), status |-> "running"]
                /\ nudge_log' = LogRead
                /\ args' = a
                /\ start_pos' = BR_Pos(resp)
                /\ start_cur' = BR_Cur(TRUE, resp)
                /\ goal' = [i \in Ids |-> cmd_ticks[i]]
                /\ steps' = Steps(a.duration_s, a.poll_hz)
                /\ eps_ticks' = EpsTicks(a.eps_deg)
                /\ k' = 0 /\ mid' = None /\ now' = 0 /\ deadline' = 0
                /\ ok_streak' = 0 /\ last_max_err' = None /\ result' = None
                /\ written' = None /\ nwrites' = 0 /\ tripped' = None
                /\ poll_errs' = <<>> /\ post_reads' = 0
    /\ guard_reads' = {}
    /\ NoModeWrites
    /\ ReadKeepsCommand

\* lines 308-310, reached when the streaming loop ends; stall is the time
\* that passes before the first test of the while condition
BeginSettle(stall) ==
    /\ pc' = "settle"
    /\ deadline' = Timeout(args)
    /\ now' = stall
    /\ ok_streak' = 0
    /\ last_max_err' = None

\* one iteration of the streaming loop, lines 284-305
StreamStep ==
    /\ UNCHANGED scanVars
    /\ pc = "stream"
    /\ \E tx_ok \in BOOLEAN, resp \in BusResponses(goal), stall \in Stalls :
        LET kk == k + 1
            m == [i \in Ids |-> Waypoint(start_pos[i], goal[i], kk, steps, args.smoothstep)]
            guarded == args.current_guard # None /\ GuardDue(kk, args.poll_hz)
            bad == IF guarded /\ ~BR_Raises(resp)
                   THEN Bad(BR_Cur(TRUE, resp), args.current_guard) ELSE {}
        IN  /\ k' = kk
            /\ mid' = Some(m)
            /\ IF ~tx_ok
               THEN /\ Raise
                    /\ io_failed' = TRUE
                    /\ UNCHANGED <<storeVars, written, nwrites, tripped, now, deadline,
                                   ok_streak, last_max_err, nreads, last_read,
                                   guard_reads, curVars>>
               ELSE /\ written' = Some([i \in Ids |-> U32(m[i])])
                    /\ nwrites' = nwrites + 1
                    /\ IF guarded
                       THEN /\ BulkReadEffect(TRUE, resp)
                            /\ ObserveRead(nreads, TRUE, resp)
                            /\ guard_reads' = guard_reads \cup {kk}
                       ELSE UNCHANGED <<last_present_ticks, last_present_current,
                                        supports_current, ioVars, curVars>>
                    /\ ReadKeepsCommand
                    /\ IF guarded /\ BR_Raises(resp)
                       THEN /\ Raise
                            /\ UNCHANGED <<tripped, now, deadline, ok_streak, last_max_err>>
                       ELSE /\ tripped' = IF bad # {} /\ tripped = None
                                       THEN Some(kk) ELSE tripped
                            /\ UNCHANGED last_call
                            /\ IF GuardStops(bad) \/ kk = steps
                               THEN BeginSettle(stall)
                               ELSE UNCHANGED <<pc, now, deadline, ok_streak, last_max_err>>
    /\ UNCHANGED <<script, nudge_log, args, start_pos, start_cur, goal, steps, eps_ticks,
                   result, poll_errs, post_reads, modeVars>>

\* mutant of Result: final_pos and final_current are the start readings
Result_Start(settled, pos, cur, max_err) ==
    [ settled |-> settled, start_pos |-> start_pos, start_current |-> start_cur,
      goal |-> goal, final_pos |-> start_pos, final_current |-> start_cur,
      max_err_ticks |-> max_err,
      max_err_deg |-> IF max_err = None THEN None ELSE Some(TicksToDeg(max_err[1])) ]

\* the returned dict
Result(settled, pos, cur, max_err) ==
    [ settled |-> settled, start_pos |-> start_pos, start_current |-> start_cur,
      goal |-> goal, final_pos |-> pos, final_current |-> cur,
      max_err_ticks |-> max_err,
      max_err_deg |-> IF max_err = None THEN None ELSE Some(TicksToDeg(max_err[1])) ]

\* one iteration of the settle loop, lines 312-335; lag is the time the
\* iteration takes beyond its sleep
SettlePoll ==
    /\ UNCHANGED scanVars
    /\ pc = "settle"
    /\ now < deadline
    /\ \E resp \in BusResponses(goal), lag \in Stalls :
        /\ BulkReadEffect(TRUE, resp)
        /\ ObserveRead(nreads, TRUE, resp)
        /\ IF BR_Raises(resp)
           THEN /\ Raise
                /\ UNCHANGED <<now, ok_streak, last_max_err, result, poll_errs>>
           ELSE LET pos == BR_Pos(resp)
                    cur == BR_Cur(TRUE, resp)
                    max_err == MaxErr(goal, pos)
                    streak == NextStreak(ok_streak, max_err, eps_ticks)
                IN  /\ last_max_err' = Some(max_err)
                    /\ poll_errs' = Append(poll_errs, max_err)
                    /\ ok_streak' = streak
                    /\ IF InTolerance(max_err, eps_ticks) /\ StreakDone(streak, args.settle_n)
                       THEN /\ result' = Some(Result(TRUE, pos, cur, Some(max_err)))
                            /\ pc' = "idle"
                            /\ last_call' = [last_call EXCEPT !.status = "returned"]
                            /\ UNCHANGED now
                       ELSE /\ now' = now + SleepTime(args.poll_hz) + lag
                            /\ UNCHANGED <<pc, last_call, result>>
    /\ ReadKeepsCommand
    /\ UNCHANGED <<script, nudge_log, args, start_pos, start_cur, goal, steps,
                   eps_ticks, k, mid, deadline, written, nwrites, tripped, post_reads,
                   guard_reads, modeVars>>

\* the deadline has passed: lines 337-351
TimeoutReturn ==
    /\ UNCHANGED scanVars
    /\ pc = "settle"
    /\ ~(now < deadline)
    /\ \E resp \in BusResponses(goal) :
        /\ BulkReadEffect(TRUE, resp)
        /\ ObserveRead(nreads, TRUE, resp)
        /\ post_reads' = post_reads + 1
        /\ IF BR_Raises(resp)
           THEN /\ Raise
                /\ UNCHANGED result
           ELSE /\ result' = Some(Result(FALSE, BR_Pos(resp), BR_Cur(TRUE, resp), last_max_err))
                /\ pc' = "idle"
                /\ last_call' = [last_call EXCEPT !.status = "returned"]
    /\ ReadKeepsCommand
    /\ UNCHANGED <<script, nudge_log, args, start_pos, start_cur, goal, steps,
                   eps_ticks, k, mid, now, deadline, ok_streak, last_max_err, written,
                   nwrites, tripped, poll_errs, guard_reads, modeVars>>

Next ==
    \/ EnsureExtendedMode
    \/ SetTargetsAbsDeg
    \/ NudgeRelDeg
    \/ SoftReset
    \/ BulkRead
    \/ ExecuteTimeSynced
    \/ StreamStep
    \/ SettlePoll
    \/ TimeoutReturn

Spec == Init /\ [][Next]_vars

\* execute_time_synced runs in the caller's thread: once called, its loops
\* go on as long as the process runs
ExecFairness ==
    /\ WF_vars(StreamStep)
    /\ WF_vars(SettlePoll)
    /\ WF_vars(TimeoutReturn)

LiveSpec == Spec /\ ExecFairness

\* ===================================================== run_step_scan.py
\* Every run of the script is one process: it loads the state file, builds
\* a new AxisServo, does at most one motion and ends.  The axes of the scan
\* are the configured axes.
TARGET_IDS == CfgIds

POINTS_PER_AXIS == 4

MAX_DEG == 780

\* np.linspace(0, MAX_DEG, POINTS_PER_AXIS).astype(int).tolist()
POSITIONS ==
    [j \in 1..POINTS_PER_AXIS |-> ((j - 1) * MAX_DEG) \div (POINTS_PER_AXIS - 1)]

\* len(combinations)
TotalSteps == Len(POSITIONS) ^ Len(TARGET_IDS)

\* combinations[idx] of itertools.product(POSITIONS, repeat=len(TARGET_IDS)):
\* the last axis runs fastest
Combination(idx) ==
    [n \in 1..Len(TARGET_IDS) |->
        POSITIONS[((idx \div (Len(POSITIONS) ^ (Len(TARGET_IDS) - n))) % Len(POSITIONS)) + 1]]

\* target_tick = offset + servo.deg_to_ticks(deg), written to cmd_ticks as it is
TargetTicks(home, idx) ==
    [i \in Ids |->
        IF \E n \in 1..Len(TARGET_IDS) : TARGET_IDS[n] = i
        THEN LET n == CHOOSE m \in 1..Len(TARGET_IDS) : TARGET_IDS[m] = i
             IN  home[i] + DegToTicks(10 * Combination(idx)[n])
        ELSE cmd_ticks[i]]

\* mutant of NewState: the index of the step just done is saved
NewState_Same(idx, home) ==
    [next_step_idx |-> idx, home_offsets |-> home, last_combo |-> Combination(idx)]

\* new_state of lines 131-137
NewState(idx, home) ==
    [next_step_idx |-> idx + 1, home_offsets |-> home, last_combo |-> Combination(idx)]

\* what execute_time_synced does to the caller: it returns a dict, settled
\* or not, after a last bulk read, or it raises RuntimeError
ExecOutcomes == {"settled", "timeout", "RuntimeError"}

\* the servo as one execution of the script leaves it: the command is kept
\* and the caches hold the last read
AfterExecute(cmd, outcome) ==
    /\ cmd_ticks' = cmd
    /\ IF outcome = "RuntimeError"
       THEN UNCHANGED <<last_present_ticks, last_present_current, supports_current>>
       ELSE \E resp \in { r \in BusResponses(cmd) : ~BR_Raises(r) } :
                BulkReadEffect(TRUE, resp)

\* the run is over
ScanExit(how) == scan_pc' = "off" /\ scan_exit' = how

\* lines 38-52: load_state(), then load_config, AxisServo(cfg), connect()
ScanConnect ==
    /\ scan_pc = "off"
    /\ state' = state_file
    /\ current_step_idx' = 0
    /\ home_offsets' = <<>>
    /\ scan_result' = None
    /\ \E connected \in BOOLEAN :
        IF connected
        THEN /\ scan_pc' = "branch"
             /\ scan_exit' = ""
             /\ cmd_ticks' = [i \in Ids |-> 0]
             /\ last_present_ticks' = [i \in Ids |-> None]
             /\ last_present_current' = [i \in Ids |-> None]
             /\ supports_current' = "None"
        ELSE /\ ScanExit("not connected")
             /\ UNCHANGED storeVars
    /\ UNCHANGED <<state_file, callVars, execVars, busVars, ioVars, modeVars, curVars>>

\* lines 59-73, no state: ensure_extended_mode, then the positions read from
\* the bus become the home offsets
ScanFirstRun ==
    /\ scan_pc = "branch"
    /\ state = None
    /\ mode_ids' = TARGET_IDS
    /\ mode_writes' = EnsureWrites(TARGET_IDS)
    /\ \E resp \in BusResponses(cmd_ticks) :
        /\ BulkReadEffect(FALSE, resp)
        /\ IF BR_Raises(resp)
           THEN /\ ScanExit("RuntimeError")
                /\ UNCHANGED <<current_step_idx, home_offsets>>
           ELSE /\ home_offsets' = BR_Pos(resp)
                /\ current_step_idx' = 0
                /\ scan_pc' = "check"
                /\ UNCHANGED scan_exit
    /\ UNCHANGED <<cmd_ticks, state_file, state, scan_result,
                   callVars, execVars, busVars, ioVars, curVars>>

\* lines 76-85, a state was loaded: the index and the home offsets come from
\* it, and a state without home offsets ends the run
ScanResume ==
    /\ scan_pc = "branch"
    /\ state # None
    /\ current_step_idx' = state[1].next_step_idx
    /\ home_offsets' = state[1].home_offsets
    /\ IF state[1].home_offsets = <<>>
       THEN ScanExit("no home offsets")
       ELSE scan_pc' = "check" /\ UNCHANGED scan_exit
    /\ UNCHANGED <<state_file, state, scan_result, storeVars,
                   callVars, execVars, busVars, ioVars, modeVars, curVars>>

\* lines 88-98, the scan is complete: on "y" the command becomes the home
\* offsets and one execution runs; the run ends without a save
ScanHome ==
    /\ scan_pc = "check"
    /\ current_step_idx >= TotalSteps
    /\ \E answer \in BOOLEAN :
        IF answer
        THEN \E outcome \in ExecOutcomes :
                /\ AfterExecute(home_offsets, outcome)
                /\ IF outcome = "RuntimeError"
                   THEN /\ ScanExit("RuntimeError")
                        /\ UNCHANGED scan_result
                   ELSE /\ ScanExit("finished")
                        /\ scan_result' = Some([kind |-> "home",
                                                 settled |-> outcome = "settled"])
        ELSE /\ ScanExit("finished")
             /\ UNCHANGED <<storeVars, scan_result>>
    /\ UNCHANGED <<state_file, state, current_step_idx, home_offsets,
                   callVars, execVars, busVars, ioVars, modeVars, curVars>>

\* lines 103-126: the command of the step is written and executed
ScanMove ==
    /\ scan_pc = "check"
    /\ current_step_idx < TotalSteps
    /\ \E outcome \in ExecOutcomes :
        /\ AfterExecute(TargetTicks(home_offsets, current_step_idx), outcome)
        /\ IF outcome = "RuntimeError"
           THEN /\ ScanExit("RuntimeError")
                /\ UNCHANGED scan_result
           ELSE /\ scan_pc' = "moved"
                /\ scan_result' = Some([kind |-> "step", settled |-> outcome = "settled"])
                /\ UNCHANGED scan_exit
    /\ UNCHANGED <<state_file, state, current_step_idx, home_offsets,
                   callVars, execVars, busVars, ioVars, modeVars, curVars>>

\* lines 131-146: save_state(new_state), close()
ScanSave ==
    /\ scan_pc = "moved"
    /\ state_file' = Some(NewState(current_step_idx, home_offsets))
    /\ ScanExit("saved")
    /\ UNCHANGED <<state, current_step_idx, home_offsets, scan_result, storeVars,
                   callVars, execVars, busVars, ioVars, modeVars, curVars>>

ScanNext ==
    \/ ScanConnect
    \/ ScanFirstRun
    \/ ScanResume
    \/ ScanHome
    \/ ScanMove
    \/ ScanSave

\* the runs of the script, one after the other, from no state file
ScanInit ==
    /\ Constructed(<<>>)
    /\ ScanOff

ScanSpec == ScanInit /\ [][ScanNext]_vars

\* ================================================================ claims
\* the call has returned a dict
Returned == result # None

Settled == Returned /\ result[1].settled

\* the settle polls j-n+1 .. j exist and were all within eps
RunCompleteAt(errs, j, n, eps) ==
    /\ j >= n
    /\ j <= Len(errs)
    /\ \A i \in (j - n + 1)..j : i >= 1 /\ errs[i] <= eps

\* the number of polls at the end of errs that were within eps
RECURSIVE TailRun(_, _)
TailRun(errs, eps) ==
    IF errs = <<>> \/ errs[Len(errs)] > eps THEN 0
    ELSE 1 + TailRun(SubSeq(errs, 1, Len(errs) - 1), eps)

\* C1: settled=true is returned only when the latest settle_n settle polls
\* were all within eps_ticks; a poll above eps_ticks resets the streak, so
\* ok_streak is the length of the in-tolerance run that ends the polls so
\* far; the polls [1,1,5,1,1] with eps_ticks = 2 and settle_n = 3 have not
\* settled.
C1_SettledOnlyAfterStreak ==
    /\ Settled => RunCompleteAt(poll_errs, Len(poll_errs), args.settle_n, eps_ticks)
    /\ poll_errs # <<>> => ok_streak = TailRun(poll_errs, eps_ticks)
    /\ (poll_errs = <<1, 1, 5, 1, 1>> /\ eps_ticks = 2 /\ args.settle_n = 3) => ~Settled

C1_Witness ==
    /\ Settled
    /\ args.settle_n = 3
    /\ eps_ticks = 2
    /\ poll_errs = <<1, 1, 5, 1, 1, 1>>

\* C2: a settle poll that completes a run of settle_n in-tolerance polls is
\* the last poll of the call and the call returns settled=true at it; the
\* polls [5,5,1,1,1] with eps_ticks = 2 and settle_n = 3 settle at the poll of
\* index 4, no earlier.
C2_SettlesAtFirstCompleteRun ==
    /\ args # None =>
          \A j \in 1..Len(poll_errs) :
              RunCompleteAt(poll_errs, j, args.settle_n, eps_ticks)
                  => (j = Len(poll_errs) /\ Settled)
    /\ (args # None /\ eps_ticks = 2 /\ args.settle_n = 3) =>
          /\ poll_errs = <<5, 5, 1, 1, 1>> => Settled
          /\ poll_errs \in { <<5>>, <<5, 5>>, <<5, 5, 1>>, <<5, 5, 1, 1>> } => ~Settled

C2_Witness ==
    /\ Settled
    /\ args.settle_n = 3
    /\ eps_ticks = 2
    /\ poll_errs = <<5, 5, 1, 1, 1>>

\* C3 (as claimed): when a guard read returned a current outside the guard
\* range, the result of the call has settled=false.
C3_GuardAbortNotSettled == (tripped # None /\ Returned) => ~result[1].settled

\* C4: once a guard read on step g returned a current outside the guard
\* range, streaming has stopped at g: the loop variable stays g and exactly
\* the g waypoints of steps 1..g were written, the latest being step g's.
C4_NoWriteAfterGuardTrip ==
    tripped # None =>
        /\ pc # "stream"
        /\ k = tripped[1]
        /\ nwrites = tripped[1]
        /\ written = Some([i \in Ids |->
               U32(Waypoint(start_pos[i], goal[i], tripped[1], steps, args.smoothstep))])

C4_Witness ==
    /\ tripped = Some(3)
    /\ steps = 10
    /\ Returned
    /\ nwrites = 3

\* the stored values lie in the tick range
InRange(t) == IntMin <= t /\ t <= IntMax

\* C5: shape(0) = 0 and shape(1) = 1 in both modes, and the waypoint of the
\* last step k = steps is the goal exactly; for a goal in the tick range the
\* word written to the bus reads back as the goal.
C5_LastWaypointIsGoal ==
    (args # None /\ k = steps /\ mid # None) =>
        /\ ShapeNum(0, steps, args.smoothstep) = 0
        /\ ShapeNum(steps, steps, args.smoothstep) = ShapeDen(steps, args.smoothstep)
        /\ \A i \in Ids : mid[1][i] = goal[i]
        /\ nwrites = steps =>
              \A i \in Ids : InRange(goal[i]) => Int32(written[1][i]) = goal[i]

C5_Witness ==
    /\ args # None
    /\ k = steps
    /\ steps > 1
    /\ args.smoothstep
    /\ nwrites = steps
    /\ start_pos[1] = IntMin
    /\ goal[1] = IntMax
    /\ Int32(written[1][1]) = IntMax

\* C6 (as claimed): every returned result follows one bulk read issued after
\* the settle loop ended.
C6_FinalReadAlways == Returned => post_reads = 1

\* C6 (amended): final_pos and final_current are those of the latest bulk
\* read of the call; a result with settled=false follows exactly one bulk
\* read issued after the settle loop ended, a result with settled=true
\* follows none: its final_pos is the position of the poll that completed
\* the streak.
C6_FinalReadOnTimeoutOnly ==
    Returned =>
        /\ \A i \in Ids : last_present_ticks[i] = Some(result[1].final_pos[i])
        /\ result[1].final_current = last_present_current
        /\ result[1].settled =>
              /\ post_reads = 0
              /\ poll_errs # <<>>
              /\ MaxErr(goal, result[1].final_pos) = poll_errs[Len(poll_errs)]
        /\ ~result[1].settled => post_reads = 1

C6_Witness ==
    /\ Returned
    /\ result[1].settled
    /\ post_reads = 0
    /\ Len(poll_errs) > 1
    /\ result[1].final_pos # start_pos

\* C7 (as claimed): max_err_ticks of every returned result is defined and is
\* the maximum over the axes of |goal - final_pos| of that result.
C7_MaxErrMatchesFinalPos ==
    Returned => result[1].max_err_ticks = Some(MaxErr(goal, result[1].final_pos))

\* ---- command store
SetAbsStep == Calling("set_targets_abs_deg") /\ script' = Tail(script)

NudgeStep == Calling("nudge_rel_deg") /\ script' = Tail(script)

\* every id a dict names
Keys(targets) == { targets[n][1] : n \in DOMAIN targets }

\* the angle a dict gives for id i
DegOf(targets, i) == targets[CHOOSE n \in DOMAIN targets : targets[n][1] = i][2]

\* C8: set_targets_abs_deg stores clamp(deg_to_ticks(deg)) for every axis of
\* targets, whatever that axis held, and leaves every other stored command
\* as it was.
C8_SetAbsOverwritesNamedOnly ==
    [][ SetAbsStep =>
          LET t == Head(script).targets
          IN  /\ DOMAIN cmd_ticks' = DOMAIN cmd_ticks \cup Keys(t)
              /\ \A i \in Keys(t) : cmd_ticks'[i] = Clamp(DegToTicks(DegOf(t, i)))
              /\ \A i \in DOMAIN cmd_ticks \ Keys(t) : cmd_ticks'[i] = cmd_ticks[i]
      ]_vars

C8_Witness ==
    /\ last_call.call = SetAbs(<< <<1, 900>> >>)
    /\ cmd_ticks[1] = DegToTicks(900)
    /\ nudge_log[2].deltas # <<>>
    /\ cmd_ticks[2] # 0

\* every command from base through the deltas stayed inside the tick range
NoClamping(base, deltas) ==
    \A n \in 0..Len(deltas) : InRange(base + SumSeq(SubSeq(deltas, 1, n)))

\* C9: as long as nothing was clamped, the stored command of an axis is its
\* value at the latest overwrite plus the deg_to_ticks of every delta nudged
\* since, whatever the bus measured in bulk reads and executions in between.
C9_NudgesAddToStoredCommand ==
    \A i \in Ids :
        NoClamping(nudge_log[i].base, nudge_log[i].deltas)
            => cmd_ticks[i] = nudge_log[i].base + SumSeq(nudge_log[i].deltas)

\* two nudges of axis 1 around an execution that measured it elsewhere
C9_Witness ==
    /\ last_call.call.op = "nudge_rel_deg"
    /\ nudge_log[1].base = 0
    /\ nudge_log[1].deltas = <<DegToTicks(1800), DegToTicks(1)>>
    /\ nudge_log[1].read_at = 1
    /\ NoClamping(0, nudge_log[1].deltas)
    /\ last_present_ticks[1] # None
    /\ last_present_ticks[1] # Some(DegToTicks(1800))
    /\ cmd_ticks[1] = DegToTicks(1800) + DegToTicks(1)

\* t held to the tick range
Saturate(t) == IF t > IntMax THEN IntMax ELSE IF t < IntMin THEN IntMin ELSE t

\* C10: the ticks stored by set_targets_abs_deg and nudge_rel_deg are inside
\* the tick range, and a target or a sum beyond an end of the range stores
\* that end exactly.
C10_StoredTicksSaturate ==
    [][ /\ SetAbsStep =>
              \A i \in Keys(Head(script).targets) :
                  /\ InRange(cmd_ticks'[i])
                  /\ cmd_ticks'[i] = Saturate(DegToTicks(DegOf(Head(script).targets, i)))
        /\ NudgeStep =>
              \A i \in Ids :
                  DeltasFor(i, Head(script).targets, DOMAIN cmd_ticks) # <<>> =>
                      /\ InRange(cmd_ticks'[i])
                      /\ cmd_ticks'[i] =
                             Saturate(cmd_ticks[i]
                                 + DeltasFor(i, Head(script).targets, DOMAIN cmd_ticks)[1])
      ]_vars

\* a nudge beyond both ends of the range
C10_Witness ==
    /\ last_call.call = Nudge(<< <<1, 1800>>, <<2, -10000>> >>)
    /\ IntMax + DegToTicks(1800) > IntMax
    /\ DegToTicks(-10000) < IntMin
    /\ cmd_ticks[1] = IntMax
    /\ cmd_ticks[2] = IntMin

\* C11 (as claimed): the keys of the command store are the configured axes,
\* no fewer and no more.
C11_KeysAreConfiguredAxes == DOMAIN cmd_ticks = Ids

\* C12: a step of bulk_read or of execute_time_synced (its start read, a
\* streaming step, a settle poll, the timeout return, a transport failure in
\* any of them) leaves the stored command of every axis as it was; during
\* and after an execution the store still holds the goal the call started
\* with, whatever the bus measured.
C12_ReadsAndExecutionKeepCommand ==
    [][ (Calling("bulk_read") \/ Calling("execute_time_synced") \/ pc # "idle")
            => /\ cmd_ticks' = cmd_ticks
               /\ goal' # None => \A i \in Ids : cmd_ticks'[i] = goal'[i]
      ]_vars

\* an execution stopped by the guard and timed out away from the command
C12_Witness ==
    /\ Returned
    /\ ~result[1].settled
    /\ tripped # None
    /\ cmd_ticks[1] = DegToTicks(1800)
    /\ result[1].final_pos[1] # cmd_ticks[1]
    /\ last_present_ticks[1] = Some(result[1].final_pos[1])

\* ---- current channel
\* this step issued a bulk read, described by last_read'
ReadStep == nreads' > 0 /\ (script' # script \/ nreads' # nreads)

\* the exception of a failed transfer or of a missing position
TransportFailure == "RuntimeError"

\* the answer makes bulk_read raise for the transfer or for a position
PositionsFailed(resp) == ~resp.ok \/ \E i \in Ids : resp.pos[i] = None

\* C13 (as claimed): once a bulk_read(want_current=True) has returned no
\* current for some axis, no later bulk read puts the current registers on
\* its request, and a bulk read raises only for the transfer or a position.
C13_NoRequestAfterAbsent ==
    [][ (absent_seen /\ ReadStep) =>
            /\ ~last_read'[1].req
            /\ (last_call'.status = TransportFailure) = PositionsFailed(last_read'[1].resp)
      ]_vars

\* C13 (amended): the first successful bulk read that requested the current
\* decides for the session.  If it found no current for some axis, no later
\* bulk read requests the current.  Otherwise every later
\* bulk_read(want_current=True) requests it, also after one of them returned
\* no current for some axis.  No bulk read ever raises because a current is
\* absent: it raises exactly when the transfer fails or a position is
\* missing.
C13_FirstRequestDecides ==
    [][ ReadStep =>
            /\ first_cur = "absent" => ~last_read'[1].req
            /\ first_cur # "absent" => last_read'[1].req = last_read'[1].want_current
            /\ (last_call'.status = TransportFailure) = PositionsFailed(last_read'[1].resp)
      ]_vars

\* the current was requested, and read for all axes, after an earlier read
\* of the session had returned none for an axis
C13_Witness ==
    /\ first_cur = "all"
    /\ absent_seen
    /\ last_read # None
    /\ last_read[1].req
    /\ \A i \in Ids : last_read[1].resp.cur[i] # None
    /\ last_call.status # TransportFailure
    /\ \A i \in Ids : last_present_current[i] # None

\* ---- operating mode
\* C14: the writes of ensure_extended_mode are, for each id of its list in
\* turn, torque-disable, set-operating-mode(extended position),
\* torque-enable, and nothing else; so each operating-mode write comes
\* directly after the torque-disable write and directly before the
\* torque-enable write of the same axis.
C14_TorqueOffModeTorqueOn ==
    /\ Len(mode_writes) = 3 * Len(mode_ids)
    /\ \A n \in DOMAIN mode_ids :
          /\ mode_writes[3 * n - 2] = <<mode_ids[n], "torque_enable", TORQUE_DISABLE>>
          /\ mode_writes[3 * n - 1] = <<mode_ids[n], "operating_mode", ModeExtendedPosition>>
          /\ mode_writes[3 * n] = <<mode_ids[n], "torque_enable", TORQUE_ENABLE>>
    /\ \A j \in DOMAIN mode_writes :
          mode_writes[j][2] = "operating_mode" =>
              /\ j > 1
              /\ j < Len(mode_writes)
              /\ mode_writes[j - 1] = <<mode_writes[j][1], "torque_enable", TORQUE_DISABLE>>
              /\ mode_writes[j + 1] = <<mode_writes[j][1], "torque_enable", TORQUE_ENABLE>>

C14_Witness ==
    /\ last_call.call = Ensure
    /\ mode_ids = <<2, 1>>
    /\ Len(mode_writes) = 6
    /\ mode_writes[2] = <<2, "operating_mode", ModeExtendedPosition>>
    /\ mode_writes[5] = <<1, "operating_mode", ModeExtendedPosition>>

\* ---- failures
\* the latest call is an execution in which a bus operation has failed
ExecFailed == last_call.call.op = "execute_time_synced" /\ io_failed

\* C15: when a bulk read or a sync write of execute_time_synced fails, the
\* call is over with that failure as its outcome and without a result, and
\* the call issues no bulk read and no sync write after it (so the failed
\* operation is not tried again).
C15_BusFailureEndsCall ==
    [][ /\ ExecFailed' =>
              /\ pc' = "idle"
              /\ result' = None
              /\ last_call'.status = TransportFailure
        /\ (ExecFailed /\ script' = script) =>
              /\ nreads' = nreads
              /\ nwrites' = nwrites
              /\ written' = written
      ]_vars

\* the sync write of step 3 failed after two writes and two guard reads
C15_Witness ==
    /\ ExecFailed
    /\ k = 3
    /\ nwrites = 2
    /\ nreads = 3
    /\ guard_reads = {1, 2}
    /\ ~PositionsFailed(last_read[1].resp)
    /\ result = None
    /\ last_call.status = TransportFailure

\* ---- soft_reset
ResetStep == Calling("soft_reset") /\ script' = Tail(script)

ResetModes == {"to_present", "to_nearest_turn"}

\* C16 (as claimed): soft_reset with a mode that is neither 'to_present' nor
\* 'to_nearest_turn' ends with the invalid-configuration error (ValueError),
\* whatever the bus answers, and leaves every stored command as it was.
\* the whole turns around the tick range
Turns == (IntMin \div TicksPerRev - 1) .. (IntMax \div TicksPerRev + 1)

\* t is a multiple of ticks_per_rev and no multiple is nearer to p
NearestTurn(t, p) ==
    /\ t % TicksPerRev = 0
    /\ \A n \in Turns : Abs(t - p) <= Abs(n * TicksPerRev - p)

C16_InvalidModeIsValueError ==
    [][ (ResetStep /\ Head(script).mode \notin ResetModes) =>
            /\ last_call'.status = "ValueError"
            /\ cmd_ticks' = cmd_ticks
      ]_vars

\* C17: soft_reset with a valid mode issues one bulk read; when the read
\* fails the call fails and every stored command is as it was; when it
\* succeeds the call returns and, for every configured axis, 'to_present'
\* has stored the measured position and 'to_nearest_turn' a multiple of
\* ticks_per_rev to which no other multiple is nearer.
C17_ResetSnapsToFreshRead ==
    [][ (ResetStep /\ Head(script).mode \in ResetModes) =>
            /\ nreads' = 1
            /\ IF PositionsFailed(last_read'[1].resp)
               THEN /\ last_call'.status = TransportFailure
                    /\ cmd_ticks' = cmd_ticks
               ELSE /\ last_call'.status = "returned"
                    /\ \A i \in Ids :
                          /\ last_present_ticks'[i] = Some(Int32(last_read'[1].resp.pos[i][1]))
                          /\ Head(script).mode = "to_present" =>
                                cmd_ticks'[i] = last_present_ticks'[i][1]
                          /\ Head(script).mode = "to_nearest_turn" =>
                                NearestTurn(cmd_ticks'[i], last_present_ticks'[i][1])
      ]_vars

\* axis 1 measured half a turn from zero, axis 2 just under half a turn
\* below: both snapped to zero
C17_Witness ==
    /\ last_call.call = Reset("to_nearest_turn")
    /\ last_call.status = "returned"
    /\ last_present_ticks[1] = Some(TicksPerRev \div 2)
    /\ last_present_ticks[2] = Some(2 - TicksPerRev \div 2)
    /\ cmd_ticks[1] = 0
    /\ cmd_ticks[2] = 0

\* ---- guard cadence
\* the streaming steps 1..n that are multiples of max(1, poll_hz div 10)
CadenceSteps(n, poll_hz) ==
    { j \in 1..n : \E m \in 1..n : j = m * Max2(1, poll_hz \div 10) }

\* C19: with a current guard the steps that issued a guard read are exactly
\* the written steps k with k mod max(1, poll_hz div 10) = 0, without a
\* guard there is none, and streaming issues no other bulk read; the guard
\* trips only on such a step, and the stream ends before its last step only
\* there.
C19_GuardReadCadence ==
    args # None =>
        /\ guard_reads = IF args.current_guard = None THEN {}
                         ELSE CadenceSteps(nwrites, args.poll_hz)
        /\ pc = "stream" => nreads = 1 + Cardinality(guard_reads)
        /\ tripped # None => tripped[1] \in guard_reads
        /\ (pc = "settle" /\ k < steps) => tripped = Some(k)

\* at 20 Hz the guard read every second step and tripped at the fourth
C19_Witness ==
    /\ args # None
    /\ args.poll_hz = 20
    /\ args.current_guard # None
    /\ pc = "settle"
    /\ k = 4
    /\ steps = 6
    /\ guard_reads = {2, 4}
    /\ tripped = Some(4)
    /\ nreads = 3

\* ---- number of steps
\* the streaming loop has ended without a guard trip and without a failure
StreamedAll == args # None /\ (pc = "settle" \/ Returned) /\ tripped = None

\* C20 (as claimed): an execution without guard trip or failure has written
\* max(1, round(duration_s * poll_hz)) waypoints, the product rounded to the
\* nearest integer, and each write carries a word for every configured axis.
C20_StepsRoundToNearest ==
    StreamedAll =>
        /\ nwrites = Max2(1, RoundHalfEven(args.duration_s * args.poll_hz, 100))
        /\ DOMAIN written[1] = Ids

\* ---- termination
\* the latest call is an execution that is over
ExecOver == last_call.call.op = "execute_time_synced" /\ pc = "idle"

\* the outcomes of an execution
OutcomeSettled == Returned /\ result[1].settled

OutcomeTimedOut == Returned /\ ~result[1].settled

\* the settle polls end with a run of settle_n polls within eps_ticks
QualifyingStreak == RunCompleteAt(poll_errs, Len(poll_errs), args.settle_n, eps_ticks)

\* C18: an execution that was called comes to its end; one whose bus
\* operations did not fail ends with a result that is either Settled or
\* TimedOut, never both and never an error; the deadline lies
\* max(0.2 s, duration_s * timeout_factor) after the end of streaming, and
\* settled=false is returned exactly when the clock has reached it without a
\* qualifying streak.
C18_ExecutionTerminates ==
    /\ (pc # "idle") ~> (pc = "idle")
    /\ [](ExecOver /\ ~io_failed =>
              /\ last_call.status = "returned"
              /\ OutcomeSettled # OutcomeTimedOut
              /\ OutcomeTimedOut =>
                    /\ deadline = Max2(20, args.duration_s * args.timeout_factor)
                    /\ now >= deadline
                    /\ ~QualifyingStreak
              /\ OutcomeSettled => QualifyingStreak)
    /\ [][ (pc = "settle" /\ now >= deadline /\ ~io_failed') =>
                (OutcomeTimedOut' /\ last_call'.status = "returned")
         ]_vars

\* the clock reached the deadline of 0.6 s after polls that broke every
\* streak
C18_Witness ==
    /\ ExecOver
    /\ OutcomeTimedOut
    /\ last_call.status = "returned"
    /\ deadline = 60
    /\ now >= deadline
    /\ Len(poll_errs) > 3
    /\ ok_streak > 0

\* ---- bulk_read
\* C21: a bulk read whose transfer fails, or in which the position of an
\* axis is not available, raises, gives the caller nothing and leaves
\* last_present_ticks and last_present_current as they were; any other bulk
\* read succeeds with a position for every configured axis.
C21_BulkReadAllOrNothing ==
    [][ ReadStep =>
            IF PositionsFailed(last_read'[1].resp)
            THEN /\ last_call'.status = TransportFailure
                 /\ result' = None
                 /\ Calling("execute_time_synced") => start_pos' = None
                 /\ last_present_ticks' = last_present_ticks
                 /\ last_present_current' = last_present_current
            ELSE /\ last_call'.status # TransportFailure
                 /\ \A i \in Ids :
                       last_present_ticks'[i] = Some(Int32(last_read'[1].resp.pos[i][1]))
      ]_vars

\* the transfer completed with the position of axis 1 only: the call raised
\* and the caches still hold the earlier readings
C21_Witness ==
    /\ last_call.status = TransportFailure
    /\ last_read # None
    /\ last_read[1].resp.ok
    /\ last_read[1].resp.pos[1] = Some(0)
    /\ last_read[1].resp.pos[2] = None
    /\ last_present_ticks[1] # None
    /\ last_present_ticks[1] # Some(0)
    /\ last_present_ticks[2] # None

\* ---- range of the stored command
\* C22 (as claimed): every stored command of a configured axis lies in the
\* tick range, so the word that sync_write_goal_positions sends for the goal
\* reads back as the stored command.
C22_StoredCommandInRange ==
    /\ \A i \in Ids : InRange(cmd_ticks[i])
    /\ (args # None /\ nwrites = steps) =>
          \A i \in Ids : Int32(written[1][i]) = cmd_ticks[i]

\* ---- waypoints
\* x lies between a and b, ends included
Between(a, x, b) == (a <= x /\ x <= b) \/ (b <= x /\ x <= a)

\* from p to q is no step back on the way from s0 to g
Toward(s0, g, p, q) == IF g >= s0 THEN p <= q ELSE p >= q

\* the waypoint of axis i at step j of the running execution; step 0 is the
\* start position
WaypointAt(i, j) ==
    IF j = 0 THEN start_pos[i]
    ELSE Waypoint(start_pos[i], goal[i], j, steps, args.smoothstep)

\* C23: in an execution every waypoint of steps 1..steps of an axis lies
\* between its start position and its goal, ends included, and is no step
\* back from the waypoint before it; the waypoints streamed one after the
\* other are so ordered, with smoothstep and with linear shaping.
C23_WaypointsMonotoneWithinMove ==
    /\ [](args # None =>
             \A i \in Ids :
                 /\ \A j \in 1..steps :
                       /\ Between(start_pos[i], WaypointAt(i, j), goal[i])
                       /\ Toward(start_pos[i], goal[i], WaypointAt(i, j - 1), WaypointAt(i, j))
                 /\ mid # None => Between(start_pos[i], mid[1][i], goal[i]))
    /\ [][ (mid # None /\ mid' # None /\ k' = k + 1) =>
                \A i \in Ids : Toward(start_pos[i], goal[i], mid[1][i], mid'[1][i])
         ]_vars

\* the second of three smoothstep waypoints: axis 1 on its way down, axis 2
\* on its way up
C23_Witness ==
    /\ pc = "stream"
    /\ args.smoothstep
    /\ steps = 3
    /\ k = 2
    /\ nwrites = 2
    /\ goal[1] < mid[1][1] /\ mid[1][1] < start_pos[1]
    /\ start_pos[2] < mid[1][2] /\ mid[1][2] < goal[2]

\* ---- current-support flag
\* what a read that decides makes of the flag
Decided(resp) == IF \A i \in Ids : resp.cur[i] # None THEN "True" ELSE "False"

\* C24 (as claimed): the flag starts unknown; while it is unknown, the first
\* bulk_read(want_current=True) whose transfer completes decides it, supported
\* iff every axis returned a current; no other step changes it.
C24_FirstCompletedTransferDecides ==
    /\ supports_current = "None"
    /\ [][ IF /\ supports_current = "None"
              /\ ReadStep
              /\ last_read'[1].want_current
              /\ last_read'[1].resp.ok
           THEN supports_current' = Decided(last_read'[1].resp)
           ELSE supports_current' = supports_current
         ]_vars

\* C24 (amended): the flag starts unknown; while it is unknown, the first
\* bulk_read(want_current=True) that returns, its transfer completed and the
\* position of every axis available, decides it, supported iff every axis
\* returned a current; no other step changes it: not a decided flag, not a
\* bulk_read(want_current=False), not a failed transfer, not a read that
\* lacks a position.
C24_FirstSuccessfulReadDecides ==
    /\ supports_current = "None"
    /\ [][ IF /\ supports_current = "None"
              /\ ReadStep
              /\ last_read'[1].want_current
              /\ ~PositionsFailed(last_read'[1].resp)
           THEN supports_current' = Decided(last_read'[1].resp)
           ELSE supports_current' = supports_current
         ]_vars

\* the flag was decided unsupported by an earlier read and is kept by a
\* later bulk_read(want_current=True) that returns
C24_Witness ==
    /\ supports_current = "False"
    /\ first_cur = "absent"
    /\ last_read # None
    /\ last_read[1].want_current
    /\ ~last_read[1].req
    /\ ~PositionsFailed(last_read[1].resp)
    /\ \A i \in Ids : last_read[1].resp.cur[i] # None

\* ---- guard and absent current
\* a guarded execution is under way or has ended
Guarded == args # None /\ args.current_guard # None

\* the current c is outside the guard of the execution
OutsideGuard(c) == c < args.current_guard[1] \/ c > args.current_guard[2]

\* C25: the guard trips only on a read that returned, for some axis, a
\* current that is present and outside the guard, never on an absent one; a
\* guarded execution whose current channel is marked unsupported never trips
\* the guard, and when its streaming loop is over it has written all steps.
C25_AbsentCurrentNeverTrips ==
    /\ [][ (tripped = None /\ tripped' # None) =>
                /\ Guarded
                /\ last_read'[1].req
                /\ \E i \in Ids : /\ last_present_current'[i] # None
                                  /\ OutsideGuard(last_present_current'[i][1])
         ]_vars
    /\ []((Guarded /\ supports_current = "False") =>
              /\ tripped = None
              /\ (pc = "settle" \/ Returned) => (k = steps /\ nwrites = steps))

\* a guarded execution with the channel marked unsupported has streamed its
\* three steps, the last guard read coming from a bus whose current of axis 2
\* is above the guard
C25_Witness ==
    /\ Guarded
    /\ supports_current = "False"
    /\ pc = "settle"
    /\ steps = 3
    /\ nwrites = 3
    /\ guard_reads = {1, 2, 3}
    /\ nreads = 4
    /\ ~last_read[1].req
    /\ last_read[1].resp.cur[2] = Some(500)
    /\ \A i \in Ids : last_present_current[i] = None
    /\ tripped = None

\* ---- step scan: the persisted state
\* a run of the script has ended
RunEnded == scan_pc = "off" /\ scan_exit # ""

\* next_step_idx as the run found it; a run without state starts from 0
IdxBefore == IF state = None THEN 0 ELSE state[1].next_step_idx

\* the run has saved the index it found plus one, with the home offsets it
\* found if there were any
AdvancedByOne ==
    /\ state_file # None
    /\ state_file[1].next_step_idx = IdxBefore + 1
    /\ state # None => state_file[1].home_offsets = state[1].home_offsets

\* the state file is written only by a run whose execute_time_synced has
\* returned, and home offsets once in the file stay as they are
SavedAfterMotion ==
    [][ /\ state_file' # state_file => (scan_pc = "moved" /\ scan_result # None)
        /\ state_file # None =>
              /\ state_file' # None
              /\ state_file'[1].home_offsets = state_file[1].home_offsets
      ]_vars

====
